---- MODULE Spec2Model ----
(***************************************************************************)
(* git-commit-mine: a model of src/main.rs.                                *)
(*                                                                         *)
(* Spec       the parallel search of main(): worker threads drawing        *)
(*            nonces from a shared atomic counter, the mpsc channel, the   *)
(*            coordinator's receive loop and its output.                   *)
(* FairSpec   Spec with the fairness the OS scheduler gives each thread.   *)
(* CrashSpec  Spec plus worker threads that die while the search runs.     *)
(* CommitSpec the pure functions of Commit, applied to bounded inputs.     *)
(* NuggetSpec the ordering of Nugget, applied to bounded inputs.           *)
(*                                                                         *)
(* Bytes are integers 0..255.  SHA-1 itself is not computed: the digest of *)
(* an annotated commit is an unknown but fixed function of the nonce, so   *)
(* the hex string of a nonce is chosen when the nonce is first hashed and  *)
(* remembered afterwards.  Machine widths that the model checker cannot    *)
(* hold (usize, u64, the 40 hex characters of SHA-1) are scaled down and   *)
(* named.                                                                  *)
(***************************************************************************)
EXTENDS Integers, Sequences, FiniteSets, TLC

\* ---------------------------------------------------------------- bounds
MaxCpus == 2        \* largest num_cpus::get() explored
MaxFetch == 3       \* fetch_add operations explored in one run of Spec
HexLen == 2         \* hex characters of a digest (40 for SHA-1)
MaxOptTimeout == 1  \* largest --timeout explored
UsizeBits == 3      \* width of usize (64, or 32 on a 32-bit target)
MaxRawLen == 4      \* longest `git cat-file` output explored
MaxAnnotate == 3    \* consecutive nonces annotated in one run of CommitSpec
MaxNuggetNonce == 2 \* largest nonce of the nuggets compared in NuggetSpec

\* ------------------------------------------------------------- constants
U64_MAX == 2147483647   \* std::u64::MAX, held as the largest model integer
NL == 10                \* b'\n'
SP == 32                \* ' '
NUL == 0                \* '\0'

UsizeModulus == 2 ^ UsizeBits

\* seconds of wall-clock time explored: one past the largest finite timeout
MaxClock == MaxOptTimeout + 1

Workers == 1 .. MaxCpus

VARIABLES
    threads,     \* number of worker threads spawned
    zeros,       \* opt.zeros
    timeout,     \* the Duration `timeout`, in seconds
    clock,       \* start.elapsed(), in seconds
    n,           \* the shared AtomicUsize
    wpc,         \* wpc[w]: where worker w is in its loop
    m,           \* m[w]: the nonce worker w fetched
    local_best,  \* local_best[w]
    digest,      \* hex digest of annotate(nonce), for the nonces hashed so far
    channel,     \* candidates sent and not yet received
    receiver,    \* TRUE while the Receiver exists
    mpc,         \* where the coordinator is
    b,           \* the candidate the coordinator holds
    best,        \* the global best
    out,         \* lines printed on stdout
    issued,      \* history: values returned by fetch_add, in order
    received,    \* history: candidates the coordinator received, in order
    adopted,     \* history: values `best` has held, in order
    budget,      \* fetch_add operations still to be explored in this run
    computed,    \* history: computed[w], the candidates worker w has built
    sent,        \* history: sent[w], the candidates worker w put on the channel
    raw,         \* CommitSpec: output.stdout of `git cat-file commit HEAD`
    commit,      \* CommitSpec: the Commit `c`
    cpc,         \* CommitSpec: "raw" before the Commit is built, "commit" after
    nonce,       \* CommitSpec: the next nonce to annotate
    ann,         \* CommitSpec: what annotate computed for the latest nonce
    prev,        \* CommitSpec: what it computed for the nonce before
    plain,       \* CommitSpec: the bytes sha1() hashed
    na,          \* NuggetSpec: three nuggets
    nb,
    nc,
    ord          \* NuggetSpec: the results of comparing them

searchVars == <<threads, zeros, timeout, clock, n, wpc, m, local_best, digest,
                channel, receiver, mpc, b, best, out, issued, received, adopted,
                budget, computed, sent>>

commitVars == <<raw, commit, cpc, nonce, ann, prev, plain>>

nuggetVars == <<na, nb, nc, ord>>

vars == <<searchVars, commitVars, nuggetVars>>

\* ---------------------------------------------------------------- Nugget
\* Nugget::new
Nugget(k, zs) == [nonce |-> k, zeros |-> zs]

\* a comparison that takes a tie for Less, as `<=` in place of `<` would
UsizeCmp_TieLess(x, y) == IF x <= y THEN "Less" ELSE "Greater"

\* usize::cmp, as an Ordering
UsizeCmp(x, y) == IF x < y THEN "Less" ELSE IF x = y THEN "Equal" ELSE "Greater"

\* a comparison that looks at the nonce instead of the zero count
NuggetCmp_ByNonce(self, other) == UsizeCmp(self.nonce, other.nonce)

\* impl Ord for Nugget
NuggetCmp(self, other) == UsizeCmp(self.zeros, other.zeros)

\* impl PartialOrd for Nugget
NuggetPartialCmp(self, other) == <<"Some", NuggetCmp(self, other)>>

\* PartialOrd::lt, le, gt as provided by the trait from partial_cmp
NuggetLt(self, other) == NuggetPartialCmp(self, other) = <<"Some", "Less">>

NuggetLe(self, other) ==
    NuggetPartialCmp(self, other) \in {<<"Some", "Less">>, <<"Some", "Equal">>}

NuggetGt(self, other) == NuggetPartialCmp(self, other) = <<"Some", "Greater">>

\* the equality #[derive(PartialEq)] would give: every field
NuggetEq_Derived(self, other) == self = other

\* impl PartialEq for Nugget
NuggetEq(self, other) == self.zeros = other.zeros

\* the two numbers in the wrong places of the format string
NuggetString_Swapped(self) == <<self.nonce, "zeros:", self.zeros>>

\* Nugget::string: "{zeros} zeros: '{prefix} {nonce}'"; the prefix is the
\* same on every line and is left out
NuggetString(self) == <<self.zeros, "zeros:", self.nonce>>

\* ---------------------------------------------------------------- Commit
Commit(metadata, message, prefix) ==
    [metadata |-> metadata, message |-> message, prefix |-> prefix]

\* Iterator::take(k) and Iterator::skip(k), collected
Take(s, k) == SubSeq(s, 1, IF k < Len(s) THEN k ELSE Len(s))

Skip(s, k) == SubSeq(s, k + 1, Len(s))

\* the last pair of newlines instead of the first
find_splitting_index_Last(bytes) ==
    LET pairs == {i \in 1 .. Len(bytes) - 1 : bytes[i] = NL /\ bytes[i + 1] = NL}
    IN  IF pairs = {} THEN Len(bytes)
        ELSE (CHOOSE i \in pairs : \A j \in pairs : j <= i) - 1

\* bytes.iter().zip(bytes.iter().skip(1)).position(|(a, b)| a == '\n' && b == '\n'),
\* or bytes.len(); the index is 0-based
find_splitting_index(bytes) ==
    LET pairs == {i \in 1 .. Len(bytes) - 1 : bytes[i] = NL /\ bytes[i + 1] = NL}
    IN  IF pairs = {} THEN Len(bytes)
        ELSE (CHOOSE i \in pairs : \A j \in pairs : i <= j) - 1

\* the message starting one byte early, at the second newline
split_bytes_SkipOne(bytes) ==
    LET i == find_splitting_index(bytes)
    IN  <<Take(bytes, i), Skip(bytes, i + 1)>>

\* Commit::split_bytes
split_bytes(bytes) ==
    LET i == find_splitting_index(bytes)
    IN  <<Take(bytes, i), Skip(bytes, i + 2)>>

\* format!("{}", n).as_bytes(): the decimal digits of n in ASCII
RECURSIVE Decimal(_)
Decimal(k) ==
    IF k < 10 THEN <<48 + k>> ELSE Append(Decimal(k \div 10), 48 + (k % 10))

\* a digit count that moves each boundary one nonce up, as ceil(log10(k)) does
base_10_length_CeilLog(k) == IF k <= 1 THEN 1 ELSE Len(Decimal(k - 1))

\* base_10_length
base_10_length(k) == Len(Decimal(k))

\* Commit::length
length(c) == Len(c.metadata) + 2 + Len(c.message)

\* the length without the space before the nonce
prefix_length_NoSpace(c, k) ==
    length(c) + Len(c.prefix) + base_10_length(k) + 1

\* Commit::prefix_length
prefix_length(c, k) ==
    length(c) + Len(c.prefix) + 1 + base_10_length(k) + 1

\* "commit "
CommitTag == <<99, 111, 109, 109, 105, 116, SP>>

\* Commit::sha1: the bytes given to the hasher, in order
sha1(c) ==
    CommitTag \o Decimal(length(c)) \o <<NUL>>
        \o c.metadata \o <<NL, NL>> \o c.message

\* Commit::annotate: the bytes given to the hasher, in order
annotate(c, k) ==
    CommitTag \o Decimal(prefix_length(c, k)) \o <<NUL>>
        \o c.metadata \o <<NL>> \o c.prefix
        \o (<<SP>> \o Decimal(k) \o <<NL, NL>>) \o c.message

\* ----------------------------------------------------------- count_zeros
HexChars == {"0", "f"}

HexStrings == [1 .. HexLen -> HexChars]

count_zeros_OffByOne(hash) ==
    IF \E i \in 1 .. Len(hash) : hash[i] # "0"
    THEN CHOOSE i \in 1 .. Len(hash) :
              /\ hash[i] # "0"
              /\ \A j \in 1 .. i - 1 : hash[j] = "0"
    ELSE Len(hash) + 1

count_zeros(hash) ==
    IF \E i \in 1 .. Len(hash) : hash[i] # "0"
    THEN (CHOOSE i \in 1 .. Len(hash) :
              /\ hash[i] # "0"
              /\ \A j \in 1 .. i - 1 : hash[j] = "0") - 1
    ELSE Len(hash)

\* --------------------------------------------------------------- startup
\* Duration::new(match opt.timeout { 0 => u64::MAX, _ => opt.timeout }, 0)
TimeoutDuration(opt_timeout) == IF opt_timeout = 0 THEN U64_MAX ELSE opt_timeout

Min(x, y) == IF x < y THEN x ELSE y

\* match opt.threads { 0 => num_cpus::get(), _ => min(opt.threads, num_cpus::get()) }
ThreadCount(opt_threads, cpus) == IF opt_threads = 0 THEN cpus ELSE Min(opt_threads, cpus)

Spawned == 1 .. threads

\* the original `sender` stays in main's scope until main returns; each
\* worker that has not unwound holds a clone
Senders ==
    (IF mpc = "exited" THEN 0 ELSE 1)
    + Cardinality({w \in Spawned : wpc[w] # "panicked"})

InitSearch ==
    /\ threads \in {ThreadCount(t, c) : t \in 0 .. MaxCpus + 1, c \in 1 .. MaxCpus}
    /\ zeros \in 0 .. HexLen + 1
    /\ timeout \in {TimeoutDuration(t) : t \in 0 .. MaxOptTimeout}
    /\ clock = 0
    /\ n = 0
    /\ wpc = [w \in Workers |-> "fetch"]
    /\ m = [w \in Workers |-> 0]
    /\ local_best = [w \in Workers |-> Nugget(0, 0)]
    /\ digest = <<>>
    /\ channel = <<>>
    /\ receiver = TRUE
    /\ mpc = "recv"
    /\ b = Nugget(0, 0)
    /\ best = Nugget(0, 0)
    /\ out = <<>>
    /\ issued = <<>>
    /\ received = <<>>
    /\ adopted = <<Nugget(0, 0)>>
    /\ budget = MaxFetch
    /\ computed = [w \in Workers |-> {}]
    /\ sent = [w \in Workers |-> <<>>]

\* ---------------------------------------------------------------- worker
Running == mpc # "exited"

\* n.fetch_add(1, Relaxed): returns the old value, stores old + 1 wrapped
FetchAddNew(old) == (old + 1) % UsizeModulus

\* One pass of the worker loop up to the send: the fetch_add is the only
\* access to shared memory, the hash and the comparison are thread-local.
\*   let m = n.fetch_add(1, AtomicOrdering::Relaxed) as u64;
\*   let b = Nugget::new(m, count_zeros(c.annotate(m).to_string()));
\*   if local_best.cmp(&b) == Ordering::Less { local_best = b; ... }
Fetch(w) ==
    /\ Running
    /\ w \in Spawned
    /\ wpc[w] = "fetch"
    /\ budget > 0
    /\ budget' = budget - 1
    /\ m' = [m EXCEPT ![w] = n]
    /\ n' = FetchAddNew(n)
    /\ issued' = Append(issued, n)
    /\ \E d \in HexStrings :
        /\ n \in DOMAIN digest => d = digest[n]
        /\ digest' = IF n \in DOMAIN digest THEN digest ELSE digest @@ (n :> d)
        /\ LET cand == Nugget(n, count_zeros(d))
           IN  /\ computed' = [computed EXCEPT ![w] = @ \cup {cand}]
               /\ IF NuggetCmp(local_best[w], cand) = "Less"
                  THEN /\ local_best' = [local_best EXCEPT ![w] = cand]
                       /\ wpc' = [wpc EXCEPT ![w] = "send"]
                  ELSE /\ local_best' = local_best
                       /\ wpc' = wpc
    /\ UNCHANGED <<commitVars, nuggetVars>>
    /\ UNCHANGED <<threads, zeros, timeout, clock, channel, receiver, mpc, b,
                   best, out, received, adopted, sent>>

\* results.send(b).unwrap(): Err once the Receiver is dropped, and the
\* unwrap then unwinds the worker thread
Send(w) ==
    /\ Running
    /\ w \in Spawned
    /\ wpc[w] = "send"
    /\ IF receiver
       THEN /\ channel' = Append(channel, local_best[w])
            /\ sent' = [sent EXCEPT ![w] = Append(@, local_best[w])]
            /\ wpc' = [wpc EXCEPT ![w] = "fetch"]
       ELSE /\ channel' = channel
            /\ sent' = sent
            /\ wpc' = [wpc EXCEPT ![w] = "panicked"]
    /\ UNCHANGED <<commitVars, nuggetVars>>
    /\ UNCHANGED <<threads, zeros, timeout, clock, n, m, local_best, digest,
                   receiver, mpc, b, best, out, issued, received, adopted,
                   budget, computed>>

\* ----------------------------------------------------------- coordinator
\* a receive that does not block (try_recv / recv_timeout): with nothing on
\* the channel the loop body goes on to the stop conditions all the same
Recv_TryRecv ==
    /\ mpc = "recv"
    /\ mpc' = "stop"
    /\ IF channel # <<>>
       THEN /\ b' = Head(channel)
            /\ channel' = Tail(channel)
            /\ received' = Append(received, Head(channel))
            /\ IF NuggetCmp(best, Head(channel)) = "Less"
               THEN /\ best' = Head(channel)
                    /\ out' = Append(out, [final |-> FALSE,
                                           text |-> NuggetString(Head(channel))])
                    /\ adopted' = Append(adopted, Head(channel))
               ELSE UNCHANGED <<best, out, adopted>>
       ELSE UNCHANGED <<b, channel, received, best, out, adopted>>
    /\ UNCHANGED <<commitVars, nuggetVars>>
    /\ UNCHANGED <<threads, zeros, timeout, clock, n, wpc, m, local_best,
                   digest, issued, receiver, budget, computed, sent>>

\* for b in receiver: the next candidate, or the end of the loop when the
\* channel is empty and every Sender is gone; then
\*   if best.cmp(&b) == Ordering::Less { best = b; println!(...) }
Recv ==
    /\ mpc = "recv"
    /\ channel # <<>> \/ Senders = 0
    /\ IF channel # <<>>
       THEN /\ b' = Head(channel)
            /\ channel' = Tail(channel)
            /\ received' = Append(received, Head(channel))
            /\ mpc' = "stop"
            /\ receiver' = receiver
            /\ IF NuggetCmp(best, Head(channel)) = "Less"
               THEN /\ best' = Head(channel)
                    /\ out' = Append(out, [final |-> FALSE,
                                           text |-> NuggetString(Head(channel))])
                    /\ adopted' = Append(adopted, Head(channel))
               ELSE UNCHANGED <<best, out, adopted>>
       ELSE /\ mpc' = "report"
            /\ receiver' = FALSE
            /\ UNCHANGED <<b, channel, received, best, out, adopted>>
    /\ UNCHANGED <<commitVars, nuggetVars>>
    /\ UNCHANGED <<threads, zeros, timeout, clock, n, wpc, m, local_best,
                   digest, issued,
                   budget, computed, sent>>

\* the loop condition without its target half, and without its timeout half
StopCondition_TimeoutOnly == clock > timeout

StopCondition_TargetOnly == best.zeros >= zeros

\* best.zeros >= opt.zeros || start.elapsed() > timeout
StopCondition == best.zeros >= zeros \/ clock > timeout

\* if ... { break; }   leaving the loop drops the Receiver
StopCheck ==
    /\ mpc = "stop"
    /\ IF StopCondition
       THEN /\ mpc' = "report"
            /\ receiver' = FALSE
       ELSE /\ mpc' = "recv"
            /\ receiver' = receiver
    /\ UNCHANGED <<commitVars, nuggetVars>>
    /\ UNCHANGED <<threads, zeros, timeout, clock, n, wpc, m, local_best,
                   digest, channel, b, best, out, issued, received, adopted,
                   budget, computed, sent>>

\* println!("Best result: {}", ...); main returns and the process exits
Report ==
    /\ mpc = "report"
    /\ out' = Append(out, [final |-> TRUE, text |-> NuggetString(best)])
    /\ mpc' = "exited"
    /\ UNCHANGED <<commitVars, nuggetVars>>
    /\ UNCHANGED <<threads, zeros, timeout, clock, n, wpc, m, local_best,
                   digest, channel, receiver, b, best, issued, received, adopted,
                   budget, computed, sent>>

\* wall-clock time passes while the process runs
Tick ==
    /\ Running
    /\ clock < MaxClock
    /\ clock' = clock + 1
    /\ UNCHANGED <<commitVars, nuggetVars>>
    /\ UNCHANGED <<threads, zeros, timeout, n, wpc, m, local_best, digest,
                   channel, receiver, mpc, b, best, out, issued, received, adopted,
                   budget, computed, sent>>

\* ------------------------------------------------------------ CommitSpec
Bytes == {NL, 97, 98}

RawInputs == UNION {[1 .. k -> Bytes] : k \in 0 .. MaxRawLen}

Prefixes == {<<>>, <<115, 112>>}

\* counter values next to every power of ten the model's integers hold
NonceStarts == {0, 8, 98, 998, 9998, 99998, 999998, 9999998, 99999998, 999999998}

NoCommit == Commit(<<>>, <<>>, <<>>)

NoAnn == [nonce |-> 0, digits |-> 0, plen |-> 0, hashed |-> <<>>]

CommitIdle ==
    /\ raw = <<>>
    /\ commit = NoCommit
    /\ cpc = "idle"
    /\ nonce = 0
    /\ ann = NoAnn
    /\ prev = NoAnn
    /\ plain = <<>>

NuggetIdle ==
    /\ na = Nugget(0, 0)
    /\ nb = Nugget(0, 0)
    /\ nc = Nugget(0, 0)
    /\ ord = <<>>

SearchIdle ==
    /\ InitSearch
    /\ threads = 1
    /\ zeros = 0
    /\ timeout = U64_MAX

InitCommit ==
    /\ SearchIdle
    /\ NuggetIdle
    /\ raw \in RawInputs
    /\ commit = NoCommit
    /\ cpc = "raw"
    /\ nonce \in NonceStarts
    /\ ann = NoAnn
    /\ prev = NoAnn
    /\ plain = <<>>

\* let (metadata, message) = Commit::split_bytes(output.stdout);
\* let c = Commit { metadata, message, prefix: string_to_vec(&opt.prefix) };
Construct ==
    /\ cpc = "raw"
    /\ \E p \in Prefixes :
          commit' = Commit(split_bytes(raw)[1], split_bytes(raw)[2], p)
    /\ cpc' = "commit"
    /\ UNCHANGED <<raw, nonce, ann, prev, plain>>
    /\ UNCHANGED <<searchVars, nuggetVars>>

\* c.sha1()
Sha1 ==
    /\ cpc = "commit"
    /\ plain = <<>>
    /\ plain' = sha1(commit)
    /\ UNCHANGED <<raw, commit, cpc, nonce, ann, prev>>
    /\ UNCHANGED <<searchVars, nuggetVars>>

\* c.annotate(m) for the next nonce, with the length it declares
Annotate ==
    /\ cpc = "commit"
    /\ \E s \in NonceStarts : s <= nonce /\ nonce < s + MaxAnnotate
    /\ ann' = [nonce  |-> nonce,
               digits |-> base_10_length(nonce),
               plen   |-> prefix_length(commit, nonce),
               hashed |-> annotate(commit, nonce)]
    /\ prev' = ann
    /\ nonce' = nonce + 1
    /\ UNCHANGED <<raw, commit, cpc, plain>>
    /\ UNCHANGED <<searchVars, nuggetVars>>

CommitNext == Construct \/ Sha1 \/ Annotate

CommitSpec == InitCommit /\ [][CommitNext]_vars

\* ------------------------------------------------------------ NuggetSpec
Nuggets == {Nugget(k, z) : k \in 0 .. MaxNuggetNonce, z \in 0 .. HexLen}

InitNugget ==
    /\ SearchIdle
    /\ CommitIdle
    /\ na \in Nuggets
    /\ nb \in Nuggets
    /\ nc \in Nuggets
    /\ ord = <<>>

\* every comparison of the three nuggets that the ordering laws speak of
Compare ==
    /\ ord = <<>>
    /\ ord' = [cmp_ab |-> NuggetCmp(na, nb),
               cmp_ba |-> NuggetCmp(nb, na),
               lt_ab  |-> NuggetLt(na, nb),
               gt_ab  |-> NuggetGt(na, nb),
               eq_ab  |-> NuggetEq(na, nb),
               eq_ba  |-> NuggetEq(nb, na),
               eq_aa  |-> NuggetEq(na, na),
               le_aa  |-> NuggetLe(na, na),
               le_ab  |-> NuggetLe(na, nb),
               le_ba  |-> NuggetLe(nb, na),
               le_bc  |-> NuggetLe(nb, nc),
               le_ac  |-> NuggetLe(na, nc)]
    /\ UNCHANGED <<na, nb, nc>>
    /\ UNCHANGED <<searchVars, commitVars>>

NuggetNext == Compare

NuggetSpec == InitNugget /\ [][NuggetNext]_vars

\* ---------------------------------------------------------- the search
WorkerNext == \E w \in Workers : Fetch(w) \/ Send(w)

CoordinatorNext == Recv \/ StopCheck \/ Report

Init == InitSearch /\ CommitIdle /\ NuggetIdle

Next == WorkerNext \/ CoordinatorNext \/ Tick

Spec == Init /\ [][Next]_vars

FairSpec ==
    /\ Spec
    /\ WF_vars(CoordinatorNext)
    /\ \A w \in Workers : WF_vars(Fetch(w) \/ Send(w))

\* The search after the first worker has gone through its loop
\* UsizeModulus - 2 times without finding a digest with a leading zero:
\* nothing was sent, the counter stands two below the top of usize.
WrapStart == UsizeModulus - 2

InitWrap ==
    /\ threads \in {ThreadCount(t, c) : t \in 0 .. MaxCpus + 1, c \in 1 .. MaxCpus}
    /\ zeros \in 0 .. HexLen + 1
    /\ timeout \in {TimeoutDuration(t) : t \in 0 .. MaxOptTimeout}
    /\ clock = 0
    /\ n = WrapStart
    /\ wpc = [w \in Workers |-> "fetch"]
    /\ m = [w \in Workers |-> IF w = 1 THEN WrapStart - 1 ELSE 0]
    /\ local_best = [w \in Workers |-> Nugget(0, 0)]
    /\ digest = [k \in 0 .. WrapStart - 1 |-> [i \in 1 .. HexLen |-> "f"]]
    /\ channel = <<>>
    /\ receiver = TRUE
    /\ mpc = "recv"
    /\ b = Nugget(0, 0)
    /\ best = Nugget(0, 0)
    /\ out = <<>>
    /\ issued = [i \in 1 .. WrapStart |-> i - 1]
    /\ received = <<>>
    /\ adopted = <<Nugget(0, 0)>>
    /\ budget = MaxFetch
    /\ computed = [w \in Workers |->
                     IF w = 1 THEN {Nugget(k, 0) : k \in 0 .. WrapStart - 1} ELSE {}]
    /\ sent = [w \in Workers |-> <<>>]
    /\ CommitIdle
    /\ NuggetIdle

WrapSpec == InitWrap /\ [][Next]_vars

\* A worker thread that ends while the search runs.  Nothing in main.rs
\* ends a worker before the Receiver is dropped; this is the fault the
\* failure semantics of the channel are about, and only CrashSpec has it.
WorkerCrash(w) ==
    /\ Running
    /\ w \in Spawned
    /\ wpc[w] # "panicked"
    /\ wpc' = [wpc EXCEPT ![w] = "panicked"]
    /\ UNCHANGED <<commitVars, nuggetVars>>
    /\ UNCHANGED <<threads, zeros, timeout, clock, n, m, local_best, digest,
                   channel, receiver, mpc, b, best, out, issued, received, adopted,
                   budget, computed, sent>>

CrashNext == Next \/ \E w \in Workers : WorkerCrash(w)

CrashSpec == Init /\ [][CrashNext]_vars

FairCrashSpec ==
    /\ CrashSpec
    /\ WF_vars(CoordinatorNext)
    /\ \A w \in Workers : WF_vars(Fetch(w) \/ Send(w))

TypeOK ==
    /\ threads \in 1 .. MaxCpus
    /\ n \in 0 .. UsizeModulus - 1
    /\ mpc \in {"recv", "stop", "report", "exited"}
    /\ \A w \in Workers : wpc[w] \in {"fetch", "send", "panicked"}

\* ================================================================ claims
Range(s) == {s[i] : i \in DOMAIN s}

FinalReported ==
    /\ mpc = "exited"
    /\ out # <<>>
    /\ out[Len(out)].final

\* C1: the nonces handed out by fetch_add are pairwise distinct across all
\* workers, and after K fetch_add operations they are exactly 0 .. K-1.
C1_NoncesUniqueNoGaps ==
    /\ \A i, j \in DOMAIN issued : i # j => issued[i] # issued[j]
    /\ Range(issued) = 0 .. Len(issued) - 1
    /\ \A v, w \in Spawned :
          (v # w /\ wpc[v] = "send" /\ wpc[w] = "send") => m[v] # m[w]

\* C2: the values the coordinator adopts as global best, from the initial
\* {nonce 0, zeros 0} on, never decrease in zeros.
C2_AdoptedNonDecreasing ==
    /\ adopted[1] = Nugget(0, 0)
    /\ adopted[Len(adopted)] = best
    /\ \A i \in 1 .. Len(adopted) - 1 : adopted[i].zeros <= adopted[i + 1].zeros

\* two replacements, and a received candidate that was not adopted
C2_Witness ==
    /\ Len(adopted) >= 3
    /\ Len(received) > Len(adopted) - 1

\* C3: once a candidate with zeros >= opt.zeros has been received, the
\* coordinator eventually leaves the loop and prints the final best.
C3_TargetTerminates ==
    (\E i \in DOMAIN received : received[i].zeros >= zeros) ~> FinalReported

\* a run that ended on a positive target after a candidate below it
C3_Witness ==
    /\ FinalReported
    /\ zeros >= 2
    /\ best.zeros >= zeros
    /\ Len(received) >= 2

\* C4 as claimed: with a finite timeout, once the elapsed time exceeds it
\* the coordinator eventually leaves the loop and prints the final best.
C4_TimeoutTerminates ==
    (timeout # U64_MAX /\ clock > timeout) ~> FinalReported

\* C4 as amended: with a finite timeout, once the elapsed time exceeds it
\* the coordinator leaves the loop and prints the final best after the
\* next candidate it receives, whatever that candidate's zeros.
C4_TimeoutAfterReceive ==
    (timeout # U64_MAX /\ clock > timeout /\ mpc = "stop") ~> FinalReported

\* a run that ended on the timeout with the target not reached
C4_Witness ==
    /\ FinalReported
    /\ timeout # U64_MAX
    /\ clock > timeout
    /\ best.zeros < zeros

\* C5: if every worker's Sender is gone while the coordinator still waits
\* for a candidate, the process aborts: it stops without a final
\* "Best result" line instead of waiting on.
AllWorkersEnded == \A w \in Spawned : wpc[w] = "panicked"

Aborted ==
    /\ mpc = "exited"
    /\ \A i \in DOMAIN out : ~out[i].final

C5_DisconnectIsFatal ==
    (AllWorkersEnded /\ mpc = "recv" /\ channel = <<>>) ~> Aborted

\* C6: one progress line per replacement of the global best and for no
\* other received candidate, carrying the new best's zeros and nonce; at
\* termination one final line, after every progress line, carrying the
\* global best held when the loop was left.
C6_Line(is_final, nugget) ==
    [final |-> is_final, text |-> <<nugget.zeros, "zeros:", nugget.nonce>>]

C6_Step ==
    /\ best' # best => out' = Append(out, C6_Line(FALSE, best'))
    /\ (mpc = "report" /\ mpc' = "exited") =>
          /\ out' = Append(out, C6_Line(TRUE, best))
          /\ best' = best
    /\ (best' = best /\ ~(mpc = "report" /\ mpc' = "exited")) => out' = out

C6_Lines ==
    /\ \A i \in DOMAIN out : out[i].final => i = Len(out)
    /\ mpc = "exited" <=> (out # <<>> /\ out[Len(out)].final)
    /\ Len(out) = (Len(adopted) - 1) + (IF mpc = "exited" THEN 1 ELSE 0)
    /\ Len(adopted) - 1 <= Len(received)

C6_OutputProtocol == [][C6_Step]_vars /\ []C6_Lines

\* a finished run with two progress lines, the final line, and a received
\* candidate that produced no line
C6_Witness ==
    /\ FinalReported
    /\ Len(out) >= 3
    /\ Len(received) >= Len(out)

\* ------------------------------------------------ reading hashed bytes
\* the index of the NUL that ends the header
NulAt(h) == CHOOSE i \in 1 .. Len(h) : h[i] = NUL /\ \A j \in 1 .. i - 1 : h[j] # NUL

RECURSIVE ParseDecimal(_)
ParseDecimal(ds) ==
    IF ds = <<>> THEN 0
    ELSE 10 * ParseDecimal(SubSeq(ds, 1, Len(ds) - 1)) + (ds[Len(ds)] - 48)

\* the length the header declares, and the bytes hashed after the NUL
Declared(h) == ParseDecimal(SubSeq(h, Len(CommitTag) + 1, NulAt(h) - 1))

Content(h) == SubSeq(h, NulAt(h) + 1, Len(h))

IsDigit(x) == x \in 48 .. 57

\* the decimal text of the nonce in the trailer: the digits that follow
\* metadata, newline, prefix and space
TrailerNonce(h, c) ==
    LET body  == Content(h)
        first == Len(c.metadata) + 1 + Len(c.prefix) + 1 + 1
        last  == CHOOSE e \in first .. Len(body) :
                     /\ \A i \in first .. e : IsDigit(body[i])
                     /\ e = Len(body) \/ ~IsDigit(body[e + 1])
    IN  SubSeq(body, first, last)

Annotated(a) == a.hashed # <<>>

\* C7: the length that annotate declares in the header is
\* length() + prefix.len() + 1 + digits(nonce) + 1 and equals the number of
\* bytes hashed after the NUL, which are
\* metadata "\n" prefix " " decimal(nonce) "\n\n" message.
C7_DeclaredLengthIsContentLength ==
    Annotated(ann) =>
        /\ SubSeq(ann.hashed, 1, Len(CommitTag)) = CommitTag
        /\ Declared(ann.hashed) = ann.plen
        /\ ann.plen = (Len(commit.metadata) + 2 + Len(commit.message))
                          + Len(commit.prefix) + 1 + ann.digits + 1
        /\ ann.plen = Len(Content(ann.hashed))
        /\ Content(ann.hashed) =
               commit.metadata \o <<NL>> \o commit.prefix \o <<SP>>
                   \o TrailerNonce(ann.hashed, commit) \o <<NL, NL>> \o commit.message
        /\ ParseDecimal(TrailerNonce(ann.hashed, commit)) = ann.nonce

\* a two-digit nonce on a commit with metadata, message and prefix
C7_Witness ==
    /\ Annotated(ann)
    /\ ann.nonce = 10
    /\ commit.prefix # <<>>
    /\ commit.metadata # <<>>
    /\ commit.message # <<>>

\* C8: split_bytes gives the bytes before the first pair of newlines and
\* the bytes after that pair, or the whole input and nothing when there is
\* no such pair.
PairAt(s, i) == i + 1 <= Len(s) /\ s[i] = NL /\ s[i + 1] = NL

C8_SplitAtFirstPair ==
    cpc = "commit" =>
        IF \E i \in 1 .. Len(raw) : PairAt(raw, i)
        THEN \E i \in 1 .. Len(raw) :
                /\ PairAt(raw, i)
                /\ \A j \in 1 .. i - 1 : ~PairAt(raw, j)
                /\ commit.metadata = SubSeq(raw, 1, i - 1)
                /\ commit.message = SubSeq(raw, i + 2, Len(raw))
        ELSE /\ commit.metadata = raw
             /\ commit.message = <<>>

\* "a\n\n\n": two overlapping pairs, the first one splits
C8_Witness ==
    /\ cpc = "commit"
    /\ raw = <<97, NL, NL, NL>>
    /\ commit.metadata = <<97>>
    /\ commit.message = <<NL>>

\* C9 as claimed: from one nonce to the next the digit count grows by 1
\* when the new nonce is a power of ten and by 0 otherwise, the digit count
\* of 0 is 1, the declared length grows by the same amounts, and the digit
\* count is the number of bytes of the nonce's decimal text in the trailer.
IsPowerOfTen(x) == \E e \in 0 .. 9 : x = 10 ^ e

C9_DigitStep(boundary(_)) ==
    /\ Annotated(ann) =>
          /\ ann.digits = Len(TrailerNonce(ann.hashed, commit))
          /\ ann.nonce = 0 => ann.digits = 1
    /\ (Annotated(ann) /\ Annotated(prev)) =>
          /\ ann.nonce = prev.nonce + 1
          /\ ann.digits - prev.digits = (IF boundary(ann.nonce) THEN 1 ELSE 0)
          /\ ann.plen - prev.plen = (IF boundary(ann.nonce) THEN 1 ELSE 0)

C9_DigitsGrowAtPowersOfTen == C9_DigitStep(IsPowerOfTen)

\* C9 as amended: the same, with the growth by 1 at the powers of ten from
\* 10 on (10, 100, ...); from 0 to 1 = 10^0 the digit count stays 1.
IsPowerOfTenFrom10(x) == \E e \in 1 .. 9 : x = 10 ^ e

C9_DigitsGrowAtTenAndUp == C9_DigitStep(IsPowerOfTenFrom10)

\* 99999 and 100000 annotated one after the other
C9_Witness ==
    /\ Annotated(prev)
    /\ ann.nonce = 100000
    /\ ann.digits = 6
    /\ prev.digits = 5

\* C10: the ordering of nuggets looks at zeros only and is a consistent
\* total order: exactly one of a < b, a == b, a > b; a == b iff the zeros
\* are equal; reflexive, antisymmetric, transitive; cmp is Equal iff eq.
Compared == ord # <<>>

C10_TotalOrderOnZeros ==
    Compared =>
        /\ (ord.lt_ab /\ ~ord.eq_ab /\ ~ord.gt_ab)
             \/ (~ord.lt_ab /\ ord.eq_ab /\ ~ord.gt_ab)
             \/ (~ord.lt_ab /\ ~ord.eq_ab /\ ord.gt_ab)
        /\ ord.eq_ab <=> (na.zeros = nb.zeros)
        /\ ord.lt_ab <=> (na.zeros < nb.zeros)
        /\ ord.gt_ab <=> (na.zeros > nb.zeros)
        /\ ord.le_aa /\ ord.eq_aa
        /\ (ord.le_ab /\ ord.le_ba) => ord.eq_ab
        /\ (ord.le_ab /\ ord.le_bc) => ord.le_ac
        /\ ord.le_ab \/ ord.le_ba
        /\ (ord.cmp_ab = "Equal") <=> ord.eq_ab
        /\ (ord.cmp_ba = "Equal") <=> ord.eq_ba
        /\ ord.eq_ab <=> ord.eq_ba
        /\ (ord.cmp_ab = "Less") <=> (ord.cmp_ba = "Greater")

\* equal zeros with different nonces, below a third nugget
C10_Witness ==
    /\ Compared
    /\ na.zeros = nb.zeros
    /\ na.nonce # nb.nonce
    /\ ord.eq_ab
    /\ nb.zeros < nc.zeros

\* C11: the coordinator evaluates the stop conditions only in the step
\* that follows the receipt of a candidate and leaves the loop from there
\* only; with nothing on the channel it has no step at all, also when the
\* elapsed time is past the timeout or the initial best meets the target.
C11_Step ==
    /\ (mpc = "recv" /\ mpc' # "recv") =>
          /\ channel # <<>>
          /\ mpc' = "stop"
          /\ received' = Append(received, Head(channel))
          /\ channel' = Tail(channel)
    /\ (mpc = "stop" /\ mpc' # "stop") =>
          /\ mpc' \in {"recv", "report"}
          /\ mpc' = "report" <=> (best.zeros >= zeros \/ clock > timeout)
    /\ (mpc # "report" /\ mpc' = "report") => mpc = "stop"

C11_Blocked ==
    /\ (mpc = "recv" /\ channel = <<>>) => ~ENABLED CoordinatorNext
    /\ mpc # "recv" => received # <<>>

C11_StopOnlyAfterReceive == [][C11_Step]_vars /\ []C11_Blocked

\* blocked in the receive with the timeout passed, the target met by the
\* initial best, and no candidate ever sent
C11_Witness ==
    /\ mpc = "recv"
    /\ channel = <<>>
    /\ received = <<>>
    /\ timeout # U64_MAX
    /\ clock > timeout
    /\ zeros = 0
    /\ budget = 0

\* C12: a worker sends a candidate iff its zeros exceed those of the
\* worker's private best, and the candidate then is the private best; so
\* what one worker sends strictly increases in zeros, starts at 1 or more,
\* and is at most HexLen candidates.
C12_WorkerStep(w) ==
    /\ computed'[w] # computed[w] =>
          LET cand == CHOOSE c \in computed'[w] : c \notin computed[w]
          IN  /\ wpc[w] = "fetch"
              /\ wpc'[w] = "send" <=> cand.zeros > local_best[w].zeros
              /\ local_best'[w] =
                    (IF cand.zeros > local_best[w].zeros THEN cand ELSE local_best[w])
    /\ computed'[w] = computed[w] => local_best'[w] = local_best[w]
    /\ sent'[w] # sent[w] =>
          /\ wpc[w] = "send"
          /\ sent'[w] = Append(sent[w], local_best[w])
          /\ channel' = Append(channel, local_best[w])
    /\ (wpc[w] = "send" /\ wpc'[w] # "send" /\ receiver) => sent'[w] # sent[w]
    /\ (wpc[w] # "send" /\ wpc'[w] # "send") => sent'[w] = sent[w]

C12_Step ==
    /\ \A w \in Spawned : C12_WorkerStep(w)
    /\ Len(channel') > Len(channel) => \E w \in Spawned : sent'[w] # sent[w]

C12_Sent ==
    \A w \in Spawned :
        /\ \A i \in DOMAIN sent[w] : sent[w][i].zeros >= 1
        /\ \A i \in 1 .. Len(sent[w]) - 1 : sent[w][i].zeros < sent[w][i + 1].zeros
        /\ Len(sent[w]) <= HexLen

C12_LocalGating == [][C12_Step]_vars /\ []C12_Sent

\* a worker that has sent HexLen candidates and built one it did not send
C12_Witness ==
    \E w \in Spawned :
        /\ Len(sent[w]) = HexLen
        /\ Cardinality(computed[w]) > Len(sent[w])

\* C13: a received candidate whose zeros are less than or equal to those
\* of the global best (a tie included) leaves the global best, zeros and
\* nonce, unchanged and prints nothing; only strictly more zeros replace it.
C13_Step ==
    received' # received =>
        LET cand == received'[Len(received')]
        IN  IF cand.zeros > best.zeros
            THEN /\ best' = cand
                 /\ Len(out') = Len(out) + 1
            ELSE /\ best' = best
                 /\ out' = out
                 /\ adopted' = adopted

C13_ConsumerRefilters == [][C13_Step]_vars

\* a tie from another nonce was received and the first of the two is kept
C13_Witness ==
    /\ Len(received) >= 2
    /\ received[1].zeros = received[2].zeros
    /\ received[1].nonce # received[2].nonce
    /\ best = received[1]
    /\ Len(out) = 1

\* C14: no worker thread ends before the process exits: not by returning,
\* not by failing on a send to the closed channel.
C14_WorkersEndOnlyAtExit == \A w \in Spawned : wpc[w] # "panicked"

\* C15: with a target above the digest's hex length the target condition
\* best.zeros >= opt.zeros holds in no reachable state; the coordinator has
\* left its loop only with the elapsed time above the timeout, and with the
\* timeout option 0 it is still in its loop.
C15_TargetAboveHexLen ==
    zeros > HexLen =>
        /\ ~(best.zeros >= zeros)
        /\ \A w \in Workers : local_best[w].zeros <= HexLen
        /\ mpc \in {"report", "exited"} => clock > timeout
        /\ timeout = TimeoutDuration(0) => mpc \in {"recv", "stop"}

C15_Witness ==
    /\ zeros > HexLen
    /\ best.zeros = HexLen
    /\ mpc = "exited"
    /\ clock > timeout

\* C16: every fetch_add returns a value strictly greater than every value
\* returned before it, also when the counter has reached the top of usize,
\* so no nonce is issued twice.
C16_CounterMonotonic ==
    \A i, j \in DOMAIN issued : i < j => issued[i] < issued[j]

\* C17: the global best's zeros is the maximum of 0 and the zeros of every
\* candidate received so far; when that maximum is positive the global best
\* is the earliest received candidate that attains it.
C17_MaxReceived ==
    CHOOSE z \in {0} \cup {received[i].zeros : i \in DOMAIN received} :
        \A i \in DOMAIN received : received[i].zeros <= z

C17_BestIsEarliestMax ==
    /\ best.zeros = C17_MaxReceived
    /\ C17_MaxReceived > 0 =>
          \E i \in DOMAIN received :
              /\ received[i].zeros = C17_MaxReceived
              /\ \A j \in 1 .. i - 1 : received[j].zeros < C17_MaxReceived
              /\ best.nonce = received[i].nonce

\* a smaller candidate came first, then two with the maximum
C17_Witness ==
    /\ Len(received) = 3
    /\ received[1].zeros < received[2].zeros
    /\ received[2].zeros = received[3].zeros
    /\ received[2].nonce # received[3].nonce
    /\ best = received[2]

\* C18: once the coordinator has left its loop, the best it reports is not
\* the placeholder {nonce 0, zeros 0}: some worker computed and sent it, its
\* nonce came from the shared counter, and its zeros is at least 1 and is
\* the count of leading zeros of the digest of that nonce.
C18_FinalIsRealCandidate ==
    /\ mpc \in {"report", "exited"} =>
          /\ best # Nugget(0, 0)
          /\ best.zeros >= 1
          /\ \E w \in Spawned :
                /\ best \in computed[w]
                /\ best \in Range(sent[w])
          /\ best.nonce \in Range(issued)
          /\ best.nonce \in DOMAIN digest
          /\ best.zeros = count_zeros(digest[best.nonce])
    /\ FinalReported => out[Len(out)].text = NuggetString(best)

\* the loop was left on the timeout, below the target, and the run is over
C18_Witness ==
    /\ FinalReported
    /\ best.zeros < zeros
    /\ best.nonce > 0
    /\ Len(received) >= 2

\* C19: local gating loses no improvement.  For each worker that is not
\* in the middle of a send, the largest zeros among the candidates it has
\* sent equals the largest zeros among the candidates it has computed (when
\* that is at least 1); so once a worker has computed a candidate that
\* meets a target of at least 1, a candidate meeting the target has been
\* put on the channel.
C19_MaxZeros(S) ==
    CHOOSE z \in {0} \cup {c.zeros : c \in S} : \A c \in S : c.zeros <= z

C19_NoImprovementLost ==
    \A w \in Spawned :
        wpc[w] # "send" =>
            /\ C19_MaxZeros(computed[w]) >= 1 =>
                  C19_MaxZeros(Range(sent[w])) = C19_MaxZeros(computed[w])
            /\ (zeros >= 1 /\ C19_MaxZeros(computed[w]) >= zeros) =>
                  \E i \in DOMAIN sent[w] : sent[w][i].zeros >= zeros

\* C20: split and serialize round trip.  For raw bytes with two consecutive
\* newlines the content hashed by sha1() (metadata, two newlines, message)
\* is the raw bytes again and length() is their number; for raw bytes
\* without such a pair the content is the raw bytes followed by two
\* newlines and length() is their number plus 2.
C20_SplitSerializeRoundTrip ==
    plain # <<>> =>
        IF \E i \in 1 .. Len(raw) : PairAt(raw, i)
        THEN /\ Content(plain) = raw
             /\ length(commit) = Len(raw)
             /\ Declared(plain) = Len(raw)
        ELSE /\ Content(plain) = raw \o <<NL, NL>>
             /\ length(commit) = Len(raw) + 2
             /\ Declared(plain) = Len(raw) + 2

C20_Witness ==
    /\ plain # <<>>
    /\ raw = <<NL, NL, NL, 97>>
    /\ commit.metadata = <<>>
    /\ Content(plain) = raw

====
